---------------------------- MODULE Spec2Model ----------------------------
(***************************************************************************)
(* Tech Talk Content Reviewer: the evaluator (content_reviewer.py) and the *)
(* HTTP layer that calls it (api.py).                                      *)
(*                                                                         *)
(* A Python str is modelled as a sequence of one-character strings, so     *)
(* that strip, split, lower, startswith, slicing, substring tests and the  *)
(* placeholder regular expressions are computed character by character.    *)
(***************************************************************************)
EXTENDS Integers, Sequences, FiniteSets, TLC

VARIABLES
    content,            \* the content argument of review_content
    title,              \* its title argument; rebound at line 81
    content_id,         \* its content_id argument; rebound at line 84
    clock,              \* the wall clock datetime.now() reads
    pc,                 \* position of the code being executed
    analysis,           \* the locals review_content computes in lines 87-91, or None
    review,             \* the ContentReview review_content returned, or None
    caller,             \* who called review_content: "direct", "review" or "batch"
    exc,                \* the exception raised inside the handler's try block, or None
    response,           \* the HTTP response of the handler, or None
    calls,              \* how many times the handler invoked reviewer.review_content
    batch,              \* request.contents of POST /batch-review
    idx,                \* position of the for loop of batch_review_content
    results,            \* its local results
    ratings_count,      \* its local ratings_count
    total_score,        \* its local total_score
    placeholder_count   \* its local placeholder_count

evalVars == <<content, title, content_id, clock, analysis, review>>
httpVars == <<caller, exc, response, calls>>
batchVars == <<batch, idx, results, ratings_count, total_score, placeholder_count>>
vars == <<evalVars, pc, httpVars, batchVars>>

None == "None"

MaxClock == 1

-----------------------------------------------------------------------------
(* Python str primitives *)

Lowercase == <<"a","b","c","d","e","f","g","h","i","j","k","l","m","n","o","p","q","r","s","t","u","v","w","x","y","z">>
Uppercase == <<"A","B","C","D","E","F","G","H","I","J","K","L","M","N","O","P","Q","R","S","T","U","V","W","X","Y","Z">>
Digits == <<"0","1","2","3","4","5","6","7","8","9">>

\* the character ` (a string literal cannot hold it)
Backtick == "BACKTICK"

\* the characters str.strip() and str.split() treat as whitespace
Whitespace == {" ", "\t", "\n", "\r"}

\* the characters the regular expression class \w matches (so \b sits at their edge)
WordChars == {Lowercase[i] : i \in 1..26} \cup {Uppercase[i] : i \in 1..26}
                 \cup {Digits[i] : i \in 1..10} \cup {"_"}

Range(f) == {f[x] : x \in DOMAIN f}

LowerTable == [c \in Range(Uppercase) |-> Lowercase[CHOOSE i \in 1..26 : Uppercase[i] = c]]

\* str.lower()
Lower(s) == SubSeq([i \in 1..Len(s) |-> IF s[i] \in DOMAIN LowerTable THEN LowerTable[s[i]] ELSE s[i]], 1, Len(s))

\* s[:n]
Take(s, n) == SubSeq(s, 1, IF n < Len(s) THEN n ELSE Len(s))

\* s[n:]
Drop(s, n) == SubSeq(s, n + 1, Len(s))

\* index of the first non-whitespace character of s, Len(s)+1 if there is none
FirstNonWs(s) ==
    CHOOSE i \in 1..(Len(s) + 1) :
        /\ (i = Len(s) + 1 \/ s[i] \notin Whitespace)
        /\ \A k \in 1..(i - 1) : s[k] \in Whitespace

\* index of the last non-whitespace character of s, 0 if there is none
LastNonWs(s) ==
    CHOOSE i \in 0..Len(s) :
        /\ (i = 0 \/ s[i] \notin Whitespace)
        /\ \A k \in (i + 1)..Len(s) : s[k] \in Whitespace

\* str.strip()
Strip(s) == SubSeq(s, FirstNonWs(s), LastNonWs(s))

\* w occurs in s at index i
SubAt(s, w, i) ==
    /\ i >= 1
    /\ i + Len(w) - 1 <= Len(s)
    /\ \A k \in DOMAIN w : s[i + k - 1] = w[k]

\* str.startswith(w)
StartsWith(s, w) == SubAt(s, w, 1)

\* w in s
Contains(s, w) == LET c == w[1] IN \E i \in 1..(Len(s) - Len(w) + 1) : s[i] = c /\ SubAt(s, w, i)

\* any(w in s for w in ws), ws a list of keywords
ContainsAny(s, ws) == \E j \in 1..Len(ws) : Contains(s, ws[j])

\* len(s.split()): the number of whitespace-delimited tokens
WordCount(s) ==
    Cardinality({i \in 1..Len(s) : s[i] \notin Whitespace /\ (i = 1 \/ s[i - 1] \in Whitespace)})

\* index of the first "\n" of s at or after a, Len(s)+1 if there is none
NextNewline(s, a) ==
    CHOOSE e \in a..(Len(s) + 1) :
        /\ (e = Len(s) + 1 \/ s[e] = "\n")
        /\ \A k \in a..(e - 1) : s[k] # "\n"

RECURSIVE SplitFrom(_, _)
SplitFrom(s, a) ==
    LET e == NextNewline(s, a)
    IN  <<SubSeq(s, a, e - 1)>> \o (IF e > Len(s) THEN <<>> ELSE SplitFrom(s, e + 1))

\* s.split('\n')
SplitLines(s) == SplitFrom(s, 1)

-----------------------------------------------------------------------------
(* TechTalkContentReviewer._extract_title *)

TitleLines == 5
TitleLimit == 100
UntitledContent == <<"U","n","t","i","t","l","e","d"," ","C","o","n","t","e","n","t">>

\* the loop falling off its end with "return ''" instead of the fallback literal
RECURSIVE ScanTitleNoFallback(_, _)
ScanTitleNoFallback(lines, k) ==
    IF k > Len(lines) THEN <<>>
    ELSE LET line == Strip(lines[k])
         IN  IF line # <<>> /\ ~StartsWith(line, <<"#">>) THEN Take(line, TitleLimit)
             ELSE IF StartsWith(line, <<"#", " ">>) THEN Strip(Drop(line, 2))
             ELSE ScanTitleNoFallback(lines, k + 1)

\* the loop taking any non-empty line, "#"-prefixed or not
RECURSIVE ScanTitleAnyLine(_, _)
ScanTitleAnyLine(lines, k) ==
    IF k > Len(lines) THEN UntitledContent
    ELSE LET line == Strip(lines[k])
         IN  IF StartsWith(line, <<"#", " ">>) THEN Strip(Drop(line, 2))
             ELSE IF line # <<>> THEN Take(line, TitleLimit)
             ELSE ScanTitleAnyLine(lines, k + 1)

\* the for loop over lines[:5], from line k on
RECURSIVE ScanTitle(_, _)
ScanTitle(lines, k) ==
    IF k > Len(lines) THEN UntitledContent
    ELSE LET line == Strip(lines[k])
         IN  IF line # <<>> /\ ~StartsWith(line, <<"#">>) THEN Take(line, TitleLimit)
             ELSE IF StartsWith(line, <<"#", " ">>) THEN Strip(Drop(line, 2))
             ELSE ScanTitle(lines, k + 1)

extract_title(c) == ScanTitle(Take(SplitLines(Strip(c)), TitleLines), 1)

-----------------------------------------------------------------------------
(* TechTalkContentReviewer.__init__: placeholder_patterns                  *)
(*                                                                         *)
(* A pattern is a set of alternatives; an alternative is a literal head,   *)
(* optionally followed by ".*" (any run without a newline) and one of the  *)
(* literal tails. bounded says the pattern is wrapped in \b ... \b.        *)

Alt(head, tails) == [head |-> head, tails |-> tails]

placeholder_patterns == <<
    [bounded |-> TRUE,
     alts |-> {Alt(<<"t","b","d">>, {}), Alt(<<"t","o","d","o">>, {}), Alt(<<"c","o","m","i","n","g"," ","s","o","o","n">>, {}),
               Alt(<<"p","l","a","c","e","h","o","l","d","e","r">>, {}), Alt(<<"l","o","r","e","m"," ","i","p","s","u","m">>, {}),
               Alt(<<"i","n","s","e","r","t">>, {<<"h","e","r","e">>})}],
    [bounded |-> FALSE, alts |-> {Alt(<<"{","{">>, {<<"}","}">>})}],
    [bounded |-> FALSE, alts |-> {Alt(<<"[">>, {<<"]">>})}],
    [bounded |-> FALSE, alts |-> {Alt(<<"x","x","x">>, {})}],
    [bounded |-> FALSE, alts |-> {Alt(<<".",".",".">>, {})}],
    [bounded |-> FALSE,
     alts |-> {Alt(<<"p","e","n","d","i","n","g">>, {}), Alt(<<"d","r","a","f","t">>, {}), Alt(<<"w","i","p">>, {}),
               Alt(<<"w","o","r","k"," ","i","n"," ","p","r","o","g","r","e","s","s">>, {})}],
    [bounded |-> FALSE,
     alts |-> {Alt(<<"t","o"," ","b","e">>, {<<"a","d","d","e","d">>, <<"w","r","i","t","t","e","n">>, <<"c","o","m","p","l","e","t","e","d">>, <<"u","p","d","a","t","e","d">>})}],
    [bounded |-> FALSE,
     alts |-> {Alt(<<"e","x","a","m","p","l","e">>, {<<"g","o","e","s"," ","h","e","r","e">>, <<"n","e","e","d","e","d">>, <<"t","b","d">>})}]
>>

\* \b that needs a character on both sides: the ends of the text are no boundary
WordBoundaryInner(s, p) ==
    /\ p - 1 \in 1..Len(s)
    /\ p \in 1..Len(s)
    /\ (s[p - 1] \in WordChars) # (s[p] \in WordChars)

\* \b at the position between s[p-1] and s[p]
WordBoundary(s, p) ==
    ((p - 1 \in 1..Len(s)) /\ s[p - 1] \in WordChars) # ((p \in 1..Len(s)) /\ s[p] \in WordChars)

\* "." matches every character of s[a..b]: none is a newline
NoNewline(s, a, b) == \A k \in a..b : s[k] # "\n"

\* the alternative matches s starting at index i
AltMatchesAt(s, alt, bounded, i) ==
    /\ SubAt(s, alt.head, i)
    /\ bounded => WordBoundary(s, i)
    /\ IF alt.tails = {} THEN bounded => WordBoundary(s, i + Len(alt.head))
       ELSE \E t \in alt.tails : \E j \in (i + Len(alt.head))..(Len(s) - Len(t) + 1) :
                /\ SubAt(s, t, j)
                /\ NoNewline(s, i + Len(alt.head), j - 1)
                /\ bounded => WordBoundary(s, j + Len(t))

\* re.search(pattern, s) finds a match (re.findall(pattern, s) is non-empty)
Matches(p, s) ==
    \E alt \in p.alts : LET c == alt.head[1] IN
        \E i \in 1..Len(s) : s[i] = c /\ AltMatchesAt(s, alt, p.bounded, i)

-----------------------------------------------------------------------------
(* TechTalkContentReviewer._detect_placeholders                            *)
(*                                                                         *)
(* details is kept as what decides its text: whether the "Found            *)
(* placeholders" part is present and the short-line count it reports       *)
(* (0 when it reports none).                                               *)

ShortLineLen == 20
ShortLinesReported == 5

\* the lines with 0 < len(line.strip()) < 20
ShortSections(lines) ==
    {k \in 1..Len(lines) : LET n == Len(Strip(lines[k])) IN 0 < n /\ n < ShortLineLen}

\* len(short_sections) > len(lines) * 0.3, in exact arithmetic (the double
\* len(lines) * 0.3 rounds to the integer whenever the exact product is one)
TooManyShort(nshort, nlines) == 10 * nshort > 3 * nlines

detect_placeholders(c) ==
    LET content_lower == Lower(c)
        found == {p \in 1..Len(placeholder_patterns) : Matches(placeholder_patterns[p], content_lower)}
        lines == SplitLines(c)
        nshort == Cardinality(ShortSections(lines))
    IN  [has_placeholders |-> (found # {} \/ TooManyShort(nshort, Len(lines))),
         details |-> [found |-> found # {},
                      short_lines |-> IF nshort > ShortLinesReported THEN nshort ELSE 0]]

-----------------------------------------------------------------------------
(* TechTalkContentReviewer._calculate_completeness_score *)

overview_keywords == <<<<"o","v","e","r","v","i","e","w">>, <<"i","n","t","r","o","d","u","c","t","i","o","n">>, <<"s","u","m","m","a","r","y">>>>
example_indicators == <<<<"e","x","a","m","p","l","e">>, <<"f","o","r"," ","i","n","s","t","a","n","c","e">>, <<"c","o","d","e">>, <<Backtick,Backtick,Backtick>>, <<"s","a","m","p","l","e">>>>
metadata_indicators == <<<<"a","u","t","h","o","r">>, <<"d","a","t","e">>, <<"u","p","d","a","t","e","d">>, <<"v","e","r","s","i","o","n">>, <<"o","w","n","e","r">>>>

Min2(a, b) == IF a < b THEN a ELSE b

\* lines 145-149
TitlePoints(t) ==
    IF t # <<>> /\ Len(Strip(t)) > 5 THEN 10
    ELSE IF t # <<>> THEN 5
    ELSE 0

\* lines 151-155
OverviewPoints(content_lower, word_count) ==
    IF ContainsAny(content_lower, overview_keywords) THEN 15
    ELSE IF word_count > 50 THEN 10
    ELSE 0

\* the body thresholds tested low to high, so the first one always wins
BodyPointsLowFirst(word_count) ==
    IF word_count > 100 THEN 10
    ELSE IF word_count > 200 THEN 20
    ELSE IF word_count > 500 THEN 30
    ELSE 0

\* lines 157-163
BodyPoints(word_count) ==
    IF word_count > 500 THEN 30
    ELSE IF word_count > 200 THEN 20
    ELSE IF word_count > 100 THEN 10
    ELSE 0

\* lines 165-170
ExamplePoints(content_lower) ==
    IF ContainsAny(content_lower, example_indicators) THEN 20
    ELSE IF Contains(content_lower, <<"s","t","e","p">>) \/ Contains(content_lower, <<"h","o","w"," ","t","o">>) THEN 10
    ELSE 0

\* lines 172-176
ReferencePoints(c, content_lower) ==
    IF Contains(c, <<"h","t","t","p">>) \/ Contains(c, <<"w","w","w",".">>) \/ Contains(c, <<"[">>) THEN 10
    ELSE IF Contains(content_lower, <<"s","e","e"," ","a","l","s","o">>) \/ Contains(content_lower, <<"r","e","f","e","r","e","n","c","e">>) THEN 5
    ELSE 0

\* lines 178-181
MetadataPoints(content_lower) ==
    IF ContainsAny(content_lower, metadata_indicators) THEN 10 ELSE 0

\* lines 183-185
FormattingPoints(c) ==
    IF Contains(c, <<"#">>) \/ Contains(c, <<"*">>) \/ Contains(c, <<"-">>) THEN 5 ELSE 0

calculate_completeness_score(c, t) ==
    LET content_lower == Lower(c)
        word_count == WordCount(c)
        score == TitlePoints(t)
                   + OverviewPoints(content_lower, word_count)
                   + BodyPoints(word_count)
                   + ExamplePoints(content_lower)
                   + ReferencePoints(c, content_lower)
                   + MetadataPoints(content_lower)
                   + FormattingPoints(c)
    IN  Min2(score, 100)

-----------------------------------------------------------------------------
(* TechTalkContentReviewer._determine_overall_rating *)

High == "High"
Medium == "Medium"
Low == "Low"

\* the thresholds exclusive at their lower bound
determine_overall_rating_strict(score, placeholder_flags) ==
    LET adjusted == IF placeholder_flags.has_placeholders THEN score - 20 ELSE score
    IN  IF adjusted > 80 THEN High
        ELSE IF adjusted > 50 THEN Medium
        ELSE Low

\* a penalty of 10 points
determine_overall_rating_penalty10(score, placeholder_flags) ==
    LET adjusted == IF placeholder_flags.has_placeholders THEN score - 10 ELSE score
    IN  IF adjusted >= 80 THEN High
        ELSE IF adjusted >= 50 THEN Medium
        ELSE Low

determine_overall_rating(score, placeholder_flags) ==
    LET adjusted == IF placeholder_flags.has_placeholders THEN score - 20 ELSE score
    IN  IF adjusted >= 80 THEN High
        ELSE IF adjusted >= 50 THEN Medium
        ELSE Low

-----------------------------------------------------------------------------
(* TechTalkContentReviewer._identify_key_issues *)

IssueTitle == <<"M","i","s","s","i","n","g"," ","o","r"," ","i","n","a","d","e","q","u","a","t","e"," ","t","i","t","l","e">>
IssueBrief == <<"C","o","n","t","e","n","t"," ","t","o","o"," ","b","r","i","e","f"," ","-"," ","n","e","e","d","s"," ","m","o","r","e"," ","d","e","t","a","i","l","e","d"," ","e","x","p","l","a","n","a","t","i","o","n">>
IssueExamples == <<"M","i","s","s","i","n","g"," ","p","r","a","c","t","i","c","a","l"," ","e","x","a","m","p","l","e","s"," ","o","r"," ","c","o","d","e"," ","s","a","m","p","l","e","s">>
IssueMetadata == <<"M","i","s","s","i","n","g"," ","m","e","t","a","d","a","t","a"," ","(","a","u","t","h","o","r",","," ","d","a","t","e",","," ","v","e","r","s","i","o","n"," ","i","n","f","o",")">>
IssueReferences == <<"N","o"," ","e","x","t","e","r","n","a","l"," ","r","e","f","e","r","e","n","c","e","s"," ","o","r"," ","l","i","n","k","s"," ","p","r","o","v","i","d","e","d">>
IssuePlaceholder == <<"C","o","n","t","a","i","n","s"," ","p","l","a","c","e","h","o","l","d","e","r"," ","t","e","x","t"," ","t","h","a","t"," ","n","e","e","d","s"," ","c","o","m","p","l","e","t","i","o","n">>

issue_example_keywords == <<<<"e","x","a","m","p","l","e">>, <<"c","o","d","e">>, <<Backtick,Backtick,Backtick>>>>
issue_metadata_keywords == <<<<"a","u","t","h","o","r">>, <<"d","a","t","e">>, <<"u","p","d","a","t","e","d">>, <<"o","w","n","e","r">>>>

\* issues.append(msg) when cond holds
AppendIf(issues, cond, msg) == IF cond THEN Append(issues, msg) ELSE issues

\* lines 203-230: the issues in detection order, before the cut
AllIssues(c, t) ==
    LET content_lower == Lower(c)
        word_count == WordCount(c)
        placeholder_found ==
            \E p \in 1..Len(placeholder_patterns) : Matches(placeholder_patterns[p], content_lower)
        i1 == AppendIf(<<>>, t = <<>> \/ Len(Strip(t)) < 5, IssueTitle)
        i2 == AppendIf(i1, word_count < 100, IssueBrief)
        i3 == AppendIf(i2, ~ContainsAny(content_lower, issue_example_keywords), IssueExamples)
        i4 == AppendIf(i3, ~ContainsAny(content_lower, issue_metadata_keywords), IssueMetadata)
        i5 == AppendIf(i4, ~Contains(c, <<"h","t","t","p">>) /\ ~Contains(content_lower, <<"r","e","f","e","r","e","n","c","e">>),
                       IssueReferences)
    IN  AppendIf(i5, placeholder_found, IssuePlaceholder)

\* return issues, without the [:5]
identify_key_issues_uncut(c, t, score) == AllIssues(c, t)

identify_key_issues(c, t, score) == Take(AllIssues(c, t), 5)

-----------------------------------------------------------------------------
(* TechTalkContentReviewer._generate_suggestions                           *)
(* The suggestion texts are only returned, never inspected.                *)

SuggestionFor(issue) ==
    LET low == Lower(issue)
    IN  IF Contains(low, <<"t","i","t","l","e">>)
            THEN <<"Add a clear, descriptive title that summarizes the content purpose">>
        ELSE IF Contains(low, <<"b","r","i","e","f">>)
            THEN <<"Expand content with detailed explanations, use cases, and context">>
        ELSE IF Contains(low, <<"e","x","a","m","p","l","e">>)
            THEN <<"Include practical code examples with step-by-step explanations">>
        ELSE IF Contains(low, <<"m","e","t","a","d","a","t","a">>)
            THEN <<"Add document metadata: author name, creation/update dates, version">>
        ELSE IF Contains(low, <<"r","e","f","e","r","e","n","c","e">>)
            THEN <<"Include relevant links to documentation, tools, or related resources">>
        ELSE IF Contains(low, <<"p","l","a","c","e","h","o","l","d","e","r">>)
            THEN <<"Replace all placeholder text with actual content">>
        ELSE <<>>

GeneralSuggestion == "Consider adding troubleshooting section or FAQ"

\* the for loop over issues, from issue k on
RECURSIVE SuggestFrom(_, _)
SuggestFrom(issues, k) ==
    IF k > Len(issues) THEN <<>> ELSE SuggestionFor(issues[k]) \o SuggestFrom(issues, k + 1)

generate_suggestions(issues, c) ==
    LET suggestions == SuggestFrom(issues, 1)
        all == IF WordCount(c) < 200 THEN Append(suggestions, GeneralSuggestion) ELSE suggestions
    IN  Take(all, 5)

-----------------------------------------------------------------------------
(* TechTalkContentReviewer.review_content, step by step *)

\* strftime('%Y%m%d_%H%M%S') and isoformat() of the clock reading t
FormatTime(t) == <<Digits[t + 1]>>

\* lines 80-81 left out: the title is used as supplied
ResolveTitleSkipped ==
    /\ pc = "resolve_title"
    /\ pc' = "default_id"
    /\ UNCHANGED <<evalVars, httpVars, batchVars>>

\* lines 80-81
ResolveTitle ==
    /\ pc = "resolve_title"
    /\ title' = IF title = <<>> THEN extract_title(content) ELSE title
    /\ pc' = "default_id"
    /\ UNCHANGED <<content, content_id, clock, analysis, review, httpVars, batchVars>>

\* lines 83-84
DefaultId ==
    /\ pc = "default_id"
    /\ content_id' = IF content_id = <<>> THEN <<"c","o","n","t","e","n","t","_">> \o FormatTime(clock) ELSE content_id
    /\ pc' = "analyse"
    /\ UNCHANGED <<content, title, clock, analysis, review, httpVars, batchVars>>

\* lines 87-91
Analyse ==
    /\ pc = "analyse"
    /\ analysis' =
         LET placeholder_flags == detect_placeholders(content)
             completeness_score == calculate_completeness_score(content, title)
             key_issues == identify_key_issues(content, title, completeness_score)
         IN  [placeholder_flags |-> placeholder_flags,
              completeness_score |-> completeness_score,
              overall_rating |-> determine_overall_rating(completeness_score, placeholder_flags),
              key_issues |-> key_issues,
              suggested_fixes |-> generate_suggestions(key_issues, content)]
    /\ pc' = "return"
    /\ UNCHANGED <<content, title, content_id, clock, review, httpVars, batchVars>>

\* lines 93-102; the clock may have advanced since line 84
Return ==
    /\ pc = "return"
    /\ \E now \in clock..MaxClock :
         /\ clock' = now
         /\ review' = [content_id |-> content_id,
                       title |-> title,
                       overall_rating |-> analysis.overall_rating,
                       completeness_score |-> analysis.completeness_score,
                       placeholder_flags |-> analysis.placeholder_flags,
                       key_issues |-> analysis.key_issues,
                       suggested_fixes |-> analysis.suggested_fixes,
                       evaluation_timestamp |-> FormatTime(now)]
    /\ pc' = "returned"
    /\ UNCHANGED <<content, title, content_id, analysis, httpVars, batchVars>>

-----------------------------------------------------------------------------
(* api.py: what both handlers share *)

\* HTTPException(status_code, detail)
HTTPException(status_code, detail) ==
    [class |-> "HTTPException", status_code |-> status_code, detail |-> detail]

\* isinstance(e, Exception): fastapi.HTTPException derives from Exception
IsException(e) == e.class \in {"Exception", "HTTPException"}

\* the response FastAPI sends for an HTTPException that leaves the handler
ErrorResponse(e) == [status_code |-> e.status_code, detail |-> e.detail]

\* "except Exception as e: raise HTTPException(500, prefix + str(e))" applied to
\* the exception e raised inside the try block
ExceptClause(e, prefix) ==
    IF IsException(e) THEN HTTPException(500, <<prefix, e.status_code, e.detail>>) ELSE e

\* ContentResponse(...) built field by field from a ContentReview
ContentResponse(r) ==
    [content_id |-> r.content_id,
     title |-> r.title,
     overall_rating |-> r.overall_rating,
     completeness_score |-> r.completeness_score,
     placeholder_flags |-> [has_placeholders |-> r.placeholder_flags.has_placeholders,
                            details |-> r.placeholder_flags.details],
     key_issues |-> r.key_issues,
     suggested_fixes |-> r.suggested_fixes,
     evaluation_timestamp |-> r.evaluation_timestamp]

-----------------------------------------------------------------------------
(* api.py: POST /review *)

\* lines 83-91: the emptiness check, then the call of reviewer.review_content
ReviewValidate ==
    /\ pc = "review_start"
    /\ IF Strip(content) = <<>>
       THEN /\ exc' = HTTPException(400, "Content cannot be empty")
            /\ pc' = "review_except"
            /\ UNCHANGED calls
       ELSE /\ calls' = calls + 1
            /\ pc' = "resolve_title"
            /\ UNCHANGED exc
    /\ UNCHANGED <<evalVars, caller, response, batchVars>>

\* lines 93-105
ReviewRespond ==
    /\ pc = "returned"
    /\ caller = "review"
    /\ response' = [status_code |-> 200, body |-> ContentResponse(review)]
    /\ pc' = "responded"
    /\ UNCHANGED <<evalVars, caller, exc, calls, batchVars>>

\* lines 107-108
ReviewExcept ==
    /\ pc = "review_except"
    /\ response' = ErrorResponse(ExceptClause(exc, "Error processing content: "))
    /\ pc' = "responded"
    /\ UNCHANGED <<evalVars, caller, exc, calls, batchVars>>

-----------------------------------------------------------------------------
(* api.py: POST /batch-review *)

\* the quotient cut to a tenth instead of rounded
TruncTenths(num, den) == (10 * num) \div den

\* round(num / den, 1) in tenths, for num >= 0 and den > 0. Python rounds the
\* double to the nearest tenth, ties to even; the quotients met here (a sum of
\* scores, or 100 times a count, over fewer than 16 items) are far from a tie
\* or tie exactly at .25 or .75, which a double holds exactly.
RoundTenths(num, den) ==
    LET q == (10 * num) \div den
        r == (10 * num) % den
    IN  IF 2 * r < den THEN q
        ELSE IF 2 * r > den THEN q + 1
        ELSE IF q % 2 = 0 THEN q ELSE q + 1

\* lines 131-138
BatchStart ==
    /\ pc = "batch_start"
    /\ IF batch = <<>>
       THEN /\ exc' = HTTPException(400, "No content provided")
            /\ pc' = "batch_except"
            /\ UNCHANGED <<idx, results, ratings_count, total_score, placeholder_count>>
       ELSE /\ results' = <<>>
            /\ ratings_count' = [r \in {High, Medium, Low} |-> 0]
            /\ total_score' = 0
            /\ placeholder_count' = 0
            /\ idx' = 1
            /\ pc' = "batch_loop"
            /\ UNCHANGED exc
    /\ UNCHANGED <<evalVars, caller, response, calls, batch>>

\* lines 140-142: an entry with blank content is skipped
BatchSkip ==
    /\ pc = "batch_loop"
    /\ idx <= Len(batch)
    /\ Strip(batch[idx].content) = <<>>
    /\ idx' = idx + 1
    /\ UNCHANGED <<evalVars, pc, httpVars, batch, results, ratings_count, total_score,
                   placeholder_count>>

\* lines 140-148: the call of reviewer.review_content for the entry
BatchCall ==
    /\ pc = "batch_loop"
    /\ idx <= Len(batch)
    /\ Strip(batch[idx].content) # <<>>
    /\ content' = batch[idx].content
    /\ title' = batch[idx].title
    /\ content_id' = batch[idx].content_id
    /\ calls' = calls + 1
    /\ pc' = "resolve_title"
    /\ UNCHANGED <<clock, analysis, review, caller, exc, response, batchVars>>

\* lines 150-168
BatchCollect ==
    /\ pc = "returned"
    /\ caller = "batch"
    /\ results' = Append(results, ContentResponse(review))
    /\ ratings_count' = [ratings_count EXCEPT ![review.overall_rating] = @ + 1]
    /\ total_score' = total_score + review.completeness_score
    /\ placeholder_count' =
         IF review.placeholder_flags.has_placeholders THEN placeholder_count + 1
         ELSE placeholder_count
    /\ idx' = idx + 1
    /\ pc' = "batch_loop"
    /\ UNCHANGED <<evalVars, httpVars, batch>>

\* lines 170-182; average_score and placeholder_percentage are held in tenths
BatchSummary ==
    /\ pc = "batch_loop"
    /\ idx > Len(batch)
    /\ LET total_items == Len(results)
           summary ==
               [total_items |-> total_items,
                average_score |-> IF total_items > 0 THEN RoundTenths(total_score, total_items)
                                  ELSE 0,
                ratings_distribution |-> ratings_count,
                items_with_placeholders |-> placeholder_count,
                placeholder_percentage |->
                    IF total_items > 0 THEN RoundTenths(placeholder_count * 100, total_items)
                    ELSE 0]
       IN  response' = [status_code |-> 200, results |-> results, summary |-> summary]
    /\ pc' = "responded"
    /\ UNCHANGED <<evalVars, caller, exc, calls, batchVars>>

\* lines 184-185
BatchExcept ==
    /\ pc = "batch_except"
    /\ response' = ErrorResponse(ExceptClause(exc, "Error processing batch content: "))
    /\ pc' = "responded"
    /\ UNCHANGED <<evalVars, caller, exc, calls, batchVars>>

-----------------------------------------------------------------------------
(* Requests for the evaluator: a text assembled from optional marker lines *)
(* and a filler of one-letter words, under each of a few titles.           *)

\* n one-letter words, per_line to a line
Filler(n, per_line) ==
    [i \in 1..(2 * n - 1) |->
        IF i % 2 = 1 THEN "z" ELSE IF (i \div 2) % per_line = 0 THEN "\n" ELSE " "]

\* nothing has run yet
Idle ==
    /\ clock = 0
    /\ analysis = None
    /\ review = None
    /\ exc = None
    /\ response = None
    /\ calls = 0
    /\ idx = 0
    /\ results = None
    /\ ratings_count = None
    /\ total_score = None
    /\ placeholder_count = None

RECURSIVE JoinLines(_)
JoinLines(lines) ==
    IF lines = <<>> THEN <<>>
    ELSE IF Len(lines) = 1 THEN lines[1]
    ELSE lines[1] \o <<"\n">> \o JoinLines(Tail(lines))

\* the marker lines a text may hold, in the order they appear in it
Markers == <<
    <<"#"," ","G","u","i","d","e">>,
    <<"o","v","e","r","v","i","e","w">>,
    <<"e","x","a","m","p","l","e">>,
    <<"h","t","t","p",":","/","/","z",".","z","z">>,
    <<"a","u","t","h","o","r">>,
    <<"T","B","D">>,
    <<"x","T","B","D","y">>
>>

\* one word long enough that a line holding it is not a short line
LongWord == [i \in 1..ShortLineLen |-> "z"]

\* the wide layout pads every marker line and puts WideLine filler words on a
\* line; the narrow layout leaves the markers alone and puts NarrowLine on a line
WideLine == ShortLineLen
NarrowLine == ShortLineLen \div 2

RECURSIVE MarkerLines(_, _, _)
MarkerLines(chosen, wide, k) ==
    IF k > Len(Markers) THEN <<>>
    ELSE (IF k \in chosen
          THEN <<IF wide THEN Markers[k] \o <<" ">> \o LongWord ELSE Markers[k]>>
          ELSE <<>>) \o MarkerLines(chosen, wide, k + 1)

Text(chosen, wide, n) ==
    JoinLines(MarkerLines(chosen, wide, 1)
              \o (IF n = 0 THEN <<>> ELSE <<Filler(n, IF wide THEN WideLine ELSE NarrowLine)>>))

\* every text of at most n characters of a small alphabet
TitleAlphabet == {" ", "#", "a", "\n"}
ShortTexts(n) == UNION {[1..k -> TitleAlphabet] : k \in 0..n}

\* filler sizes: the word-count thresholds of the scorer
SmallSizes == {0, 50, 100}
LargeSizes == {200, 500}

\* markers 1..5 earn points, markers 6 and 7 spell the stub word
ScoringMarkers == 1..5

\* a large text holds all the scoring markers, all but one, or none
LargeChoices ==
    {chosen \in SUBSET (1..Len(Markers)) :
        \/ Cardinality(ScoringMarkers \ chosen) <= 1
        \/ chosen \cap ScoringMarkers = {}}

MaxShort == 3

ReviewTexts ==
    {Text(chosen, wide, n) : chosen \in SUBSET (1..Len(Markers)), wide \in BOOLEAN, n \in SmallSizes}
    \cup {Text(chosen, wide, n) : chosen \in LargeChoices, wide \in BOOLEAN, n \in LargeSizes}
    \cup ShortTexts(MaxShort)

ReviewTitles == {
    <<>>,
    <<"A","P","I">>,
    <<"I","n","t","r","o">>,
    <<"G","u","i","d","e","s">>,
    <<"A","b"," "," "," "," ">>,
    <<" "," "," "," "," "," ">>
}

-----------------------------------------------------------------------------
(* reviewer.review_content called directly *)

InitReview ==
    /\ content \in ReviewTexts
    /\ title \in ReviewTitles
    /\ content_id = <<>>
    /\ batch = <<>>
    /\ pc = "resolve_title"
    /\ caller = "direct"
    /\ Idle

NextReview == ResolveTitle \/ DefaultId \/ Analyse \/ Return

SpecReview == InitReview /\ [][NextReview]_vars

-----------------------------------------------------------------------------
(* The title resolver alone, over every short text, each optionally        *)
(* followed by a run longer than the title limit.                          *)

MaxLen == 6
LongRun == [i \in 1..(TitleLimit + 1) |-> "a"]
TitleTexts == {s \o t : s \in ShortTexts(MaxLen), t \in {<<>>, LongRun}}

InitTitle ==
    /\ content \in TitleTexts
    /\ title = <<>>
    /\ content_id = <<>>
    /\ batch = <<>>
    /\ pc = "resolve_title"
    /\ caller = "direct"
    /\ Idle

NextTitle == ResolveTitle

SpecTitle == InitTitle /\ [][NextTitle]_vars

-----------------------------------------------------------------------------
(* POST /review *)

ApiTexts == ShortTexts(MaxShort) \cup {Text(chosen, TRUE, 0) : chosen \in SUBSET {1, 2, 6}}

InitApi ==
    /\ content \in ApiTexts
    /\ title \in {<<>>, <<"G","u","i","d","e","s">>}
    /\ content_id \in {<<>>, <<"d","o","c">>}
    /\ batch = <<>>
    /\ pc = "review_start"
    /\ caller = "review"
    /\ Idle

NextApi ==
    \/ ReviewValidate
    \/ ResolveTitle \/ DefaultId \/ Analyse \/ Return
    \/ ReviewRespond
    \/ ReviewExcept

SpecApi == InitApi /\ [][NextApi]_vars

-----------------------------------------------------------------------------
(* POST /batch-review *)

MaxBatch == 3

Entry(c, t, id) == [content |-> c, title |-> t, content_id |-> id]

\* a blank entry, and entries rated High, Medium and (flagged) Low
BatchEntries == {
    Entry(<<" ">>, <<>>, <<>>),
    Entry(Text(ScoringMarkers, TRUE, 100), <<"G","u","i","d","e","s">>, <<"d","o","c">>),
    Entry(Text(ScoringMarkers, TRUE, 0), <<>>, <<>>),
    Entry(Text({6}, TRUE, 0), <<"A","P","I">>, <<>>)
}

InitBatch ==
    /\ batch \in UNION {[1..n -> BatchEntries] : n \in 0..MaxBatch}
    /\ content = <<>>
    /\ title = <<>>
    /\ content_id = <<>>
    /\ pc = "batch_start"
    /\ caller = "batch"
    /\ Idle

NextBatch ==
    \/ BatchStart
    \/ BatchSkip
    \/ BatchCall
    \/ ResolveTitle \/ DefaultId \/ Analyse \/ Return
    \/ BatchCollect
    \/ BatchSummary
    \/ BatchExcept

SpecBatch == InitBatch /\ [][NextBatch]_vars

-----------------------------------------------------------------------------
(* Properties *)

\* the rating the specification assigns to an adjusted score
TierOf(adjusted) ==
    IF adjusted >= 80 THEN High ELSE IF adjusted >= 50 THEN Medium ELSE Low

\* review_content has returned and review holds the ContentReview it built
Returned == pc = "returned"

Flagged(r) == r.placeholder_flags.has_placeholders

Unflagged == [has_placeholders |-> FALSE, details |-> [found |-> FALSE, short_lines |-> 0]]

MinOf(S) == CHOOSE x \in S : \A y \in S : x <= y

\* C1: every returned Review is rated by its stored score, less 20 when it is
\* flagged for placeholders: High from 80, Medium from 50, Low below; the
\* stored score is the scorer's own, without the penalty; and unflagged, 80 is
\* High, 79 and 50 are Medium, 49 is Low.
C1_RatingFromStoredScore ==
    /\ Returned =>
         /\ review.overall_rating =
              TierOf(IF Flagged(review) THEN review.completeness_score - 20
                     ELSE review.completeness_score)
         /\ review.completeness_score = analysis.completeness_score
         /\ review.placeholder_flags = analysis.placeholder_flags
    /\ determine_overall_rating(80, Unflagged) = High
    /\ determine_overall_rating(79, Unflagged) = Medium
    /\ determine_overall_rating(50, Unflagged) = Medium
    /\ determine_overall_rating(49, Unflagged) = Low

\* a flagged Review whose stored score is still 80 although it is rated Medium
C1_Witness ==
    /\ Returned
    /\ Flagged(review)
    /\ review.completeness_score = 80
    /\ review.overall_rating = Medium

\* C3: key_issues and suggested_fixes of a returned Review hold at most 5
\* elements each.
C3_AtMostFive ==
    Returned => Len(review.key_issues) <= 5 /\ Len(review.suggested_fixes) <= 5

\* all six issue conditions hold, so the sixth issue was cut, and the general
\* suggestion was cut after five issue-derived ones
C3_Witness ==
    /\ Returned
    /\ Len(review.key_issues) = 5
    /\ Len(review.suggested_fixes) = 5
    /\ review.key_issues[1] = IssueTitle
    /\ review.key_issues[5] = IssueReferences
    /\ GeneralSuggestion \notin Range(review.suggested_fixes)
    /\ WordCount(content) < 200
    /\ \E p \in 1..Len(placeholder_patterns) : Matches(placeholder_patterns[p], Lower(content))

\* the content named by C4: more than 500 words, mentioning "overview",
\* "example", a URL (text holding "http"), "author" and a markdown symbol, and
\* matching no placeholder pattern
C4_Content ==
    /\ Returned
    /\ WordCount(content) > 500
    /\ Contains(content, <<"#">>) \/ Contains(content, <<"*">>) \/ Contains(content, <<"-">>)
    /\ Contains(content, <<"h","t","t","p">>)
    /\ LET content_lower == Lower(content)
       IN  /\ Contains(content_lower, <<"o","v","e","r","v","i","e","w">>)
           /\ Contains(content_lower, <<"e","x","a","m","p","l","e">>)
           /\ Contains(content_lower, <<"a","u","t","h","o","r">>)
           /\ \A p \in 1..Len(placeholder_patterns) :
                  ~Matches(placeholder_patterns[p], content_lower)

\* C4 as stated: such content under a title of more than 5 characters scores
\* 100 and is rated High.
C4_FullScoreByTitleLength ==
    (C4_Content /\ Len(review.title) > 5) =>
        review.completeness_score = 100 /\ review.overall_rating = High

\* C4 amended: such content under a title of more than 5 characters after
\* trimming scores 100 and is rated High.
C4_FullScoreByTrimmedTitle ==
    (C4_Content /\ Len(Strip(review.title)) > 5) =>
        review.completeness_score = 100 /\ review.overall_rating = High

\* such content, flagged only for its short lines, at 100 and High
C4_Witness ==
    /\ C4_Content
    /\ Len(Strip(review.title)) > 5
    /\ Flagged(review)
    /\ review.completeness_score = 100
    /\ review.overall_rating = High

\* "TBD" occurs in s with no word character on either side
HasWholeWord(s, w) ==
    \E i \in 1..(Len(s) - Len(w) + 1) :
        /\ SubSeq(s, i, i + Len(w) - 1) = w
        /\ i = 1 \/ s[i - 1] \notin WordChars
        /\ i + Len(w) > Len(s) \/ s[i + Len(w)] \notin WordChars

\* what C5 concludes: flagged, and rated by the score less 20
C5_Penalised ==
    /\ Flagged(review)
    /\ review.overall_rating = TierOf(review.completeness_score - 20)

\* C5 as stated: content holding "TBD" anywhere, also inside a run of letters,
\* is flagged and rated by its score less 20.
C5_AnyTBD ==
    (Returned /\ Contains(content, <<"T","B","D">>)) => C5_Penalised

\* C5 amended: content holding "TBD" as a whole word is flagged and rated by its
\* score less 20.
C5_WholeWordTBD ==
    (Returned /\ HasWholeWord(content, <<"T","B","D">>)) => C5_Penalised

\* whole-word "TBD" taking a score in the Medium range down to Low
C5_Witness ==
    /\ Returned
    /\ HasWholeWord(content, <<"T","B","D">>)
    /\ Flagged(review)
    /\ review.completeness_score \in 50..79
    /\ review.overall_rating = Low

\* C9: a returned Review that is flagged for placeholders and rated High has a
\* score of exactly 100.
C9_FlaggedHighIsFull ==
    (Returned /\ Flagged(review) /\ review.overall_rating = High) =>
        review.completeness_score = 100

\* a flagged Review rated High, beside which a flagged 95 is only Medium
C9_Witness ==
    /\ Returned
    /\ Flagged(review)
    /\ review.overall_rating = High
    /\ review.completeness_score = 100
    /\ title # UntitledContent

\* C10: the title of a returned Review is non-empty, so the title bucket gives
\* at least 5 points and the score is at least 5.
C10_TitleNeverEmpty ==
    Returned =>
        /\ review.title # <<>>
        /\ TitlePoints(review.title) >= 5
        /\ review.completeness_score >= 5

\* no title supplied and nothing in the content to take one from
C10_Witness ==
    /\ Returned
    /\ Strip(content) = <<>>
    /\ review.title = UntitledContent
    /\ review.completeness_score = 10

-----------------------------------------------------------------------------
(* Properties of the title resolver (SpecTitle: no title is supplied) *)

Resolved == pc = "default_id"

IsBlank(line) == Strip(line) = <<>>

\* the content has at least 5 lines and its first 5 are blank
FirstFiveBlank(c) ==
    LET lines == SplitLines(c)
    IN  Len(lines) >= TitleLines /\ \A k \in 1..TitleLines : IsBlank(lines[k])

\* every line of the content is blank
AllBlank(c) == LET lines == SplitLines(c) IN \A k \in 1..Len(lines) : IsBlank(lines[k])

MyTitleExample == extract_title(<<"#"," ","M","y"," ","T","i","t","l","e">> \o <<"\n">> \o <<"B","o","d","y"," ","t","e","x","t">>) = <<"M","y"," ","T","i","t","l","e">>

\* C6 as stated: content whose first 5 lines are blank resolves to "Untitled
\* Content" whatever follows them, and "# My Title\nBody text" to "My Title".
C6_FirstFiveBlankUntitled ==
    /\ (Resolved /\ FirstFiveBlank(content)) => title = UntitledContent
    /\ MyTitleExample

\* C6 amended: content that is blank throughout resolves to "Untitled Content",
\* and "# My Title\nBody text" to "My Title".
C6_AllBlankUntitled ==
    /\ (Resolved /\ AllBlank(content)) => title = UntitledContent
    /\ MyTitleExample

\* five or more lines, all blank
C6_Witness ==
    /\ Resolved
    /\ FirstFiveBlank(content)
    /\ AllBlank(content)
    /\ title = UntitledContent

\* what a line that ends the scan resolves to
TitleFrom(line) ==
    IF StartsWith(line, <<"#", " ">>) THEN Strip(Drop(line, 2)) ELSE Take(line, TitleLimit)

\* C8 as stated: the scan of the first 5 lines of the content stops at the
\* first line that is non-empty once trimmed, "#"-prefixed or not.
C8_FirstNonEmptyLineWins ==
    Resolved =>
        LET lines == Take(SplitLines(content), TitleLines)
            stops == {k \in 1..Len(lines) : ~IsBlank(lines[k])}
        IN  stops # {} => title = TitleFrom(Strip(lines[MinOf(stops)]))

\* C8 amended: the scan of the first 5 lines of the content, taken after the
\* content as a whole is trimmed, stops at the first trimmed line that starts
\* with "# " or is non-empty and does not start with "#"; a line that starts
\* with "#" but not "# " is passed over like a blank one.
C8_FirstQualifyingLineWins ==
    Resolved =>
        LET lines == Take(SplitLines(Strip(content)), TitleLines)
            stops == {k \in 1..Len(lines) :
                         LET line == Strip(lines[k])
                         IN  \/ StartsWith(line, <<"#", " ">>)
                             \/ line # <<>> /\ line[1] # "#"}
        IN  stops # {} => title = TitleFrom(Strip(lines[MinOf(stops)]))

\* a "#"-prefixed first line passed over for a later line, cut to the limit
C8_Witness ==
    /\ Resolved
    /\ StartsWith(content, <<"#">>)
    /\ ~StartsWith(content, <<"#", " ">>)
    /\ Len(content) > TitleLimit
    /\ Len(title) = TitleLimit

-----------------------------------------------------------------------------
(* Properties of POST /review *)

\* C2: a request whose content is blank is answered with a 4xx response and
\* reviewer.review_content is not invoked for it.
C2_BlankContentIsClientError ==
    (pc = "responded" /\ Strip(content) = <<>>) =>
        response.status_code \in 400..499 /\ calls = 0

-----------------------------------------------------------------------------
(* Properties of POST /batch-review *)

BatchDone == pc = "responded" /\ response.status_code = 200

\* the entries with non-blank content, in input order
Kept == SelectSeq(batch, LAMBDA e : Strip(e.content) # <<>>)

RECURSIVE SumScores(_)
SumScores(rs) == IF rs = <<>> THEN 0 ELSE Head(rs).completeness_score + SumScores(Tail(rs))

CountOf(rs, P(_)) == Cardinality({j \in 1..Len(rs) : P(rs[j])})

\* what C7 says of everything but the average of a non-empty batch
C7_Counts ==
    LET rs == response.results
        sm == response.summary
    IN  /\ Len(rs) = Len(Kept)
        /\ \A j \in 1..Len(rs) :
               LET e == Kept[j]
                   t == IF e.title = <<>> THEN extract_title(e.content) ELSE e.title
               IN  /\ rs[j].title = t
                   /\ e.content_id # <<>> => rs[j].content_id = e.content_id
                   /\ rs[j].completeness_score = calculate_completeness_score(e.content, t)
        /\ sm.total_items = Len(Kept)
        /\ \A r \in {High, Medium, Low} :
               sm.ratings_distribution[r] = CountOf(rs, LAMBDA x : x.overall_rating = r)
        /\ sm.ratings_distribution[High] + sm.ratings_distribution[Medium]
               + sm.ratings_distribution[Low] = sm.total_items
        /\ sm.items_with_placeholders = CountOf(rs, LAMBDA x : x.placeholder_flags.has_placeholders)
        /\ sm.total_items = 0 => sm.average_score = 0 /\ sm.placeholder_percentage = 0

\* C7 as stated: after the loop the results are the reviews of the non-blank
\* entries in input order, the summary counts them, and average_score is their
\* summed score divided by their number (average_score is held in tenths).
C7_ExactAverage ==
    BatchDone =>
        /\ C7_Counts
        /\ response.summary.total_items > 0 =>
               response.summary.average_score * response.summary.total_items
                   = 10 * SumScores(response.results)

\* C7 amended: the same, with average_score the summed score divided by the
\* number of results and rounded to one decimal: within half a tenth of it.
C7_RoundedAverage ==
    BatchDone =>
        /\ C7_Counts
        /\ response.summary.total_items > 0 =>
               LET d == response.summary.average_score * response.summary.total_items
                            - 10 * SumScores(response.results)
               IN  2 * d <= response.summary.total_items
                   /\ -2 * d <= response.summary.total_items

\* three results whose average is no whole number of tenths and rounds up
C7_Witness ==
    /\ BatchDone
    /\ response.summary.total_items = 3
    /\ response.summary.items_with_placeholders = 1
    /\ response.summary.average_score * 3 > 10 * SumScores(response.results)

=============================================================================
